---- MODULE Spec2Model ----
(***************************************************************************)
(* korndex: a transaction locator index built from a validated chain.      *)
(* The model follows src/src/main.rs: the batch build of the index         *)
(* (lines 80-139) and the example retrieval (lines 141-154).               *)
(*                                                                         *)
(* The validation engine (libbitcoinkernel) and the store (LMDB) are the   *)
(* environment: their calls succeed or fail nondeterministically, and the  *)
(* code's reaction to each result (unwrap, ?, .ok(), while let Ok) is what *)
(* the actions model.                                                      *)
(***************************************************************************)
EXTENDS Integers, Sequences, FiniteSets, TLC

\* ---------------------------------------------------------------- bounds
\* Longest chain (number of blocks, genesis included).
MaxChain == 3
\* Most transactions in one block (coinbase included).
MaxTxs == 3
\* Most transactions on the whole chain.
MaxTotal == 5
\* Number of distinct transaction contents.
NTx == 3

\* main.rs:84 sets batch_size = 1000; the model scales it down so that a
\* chain of MaxChain blocks spans a full batch and a remainder.
batch_size == 2

\* ------------------------------------------------------- data and helpers
\* A transaction is its content; a block is its txdata, coinbase first.
Tx == 1..NTx

\* Transaction::compute_txid followed by Txid::to_string: a content hash,
\* so equal contents give equal identifiers and different contents differ.
compute_txid(tx) == <<"txid", tx>>

Txids == {compute_txid(tx) : tx \in Tx}

\* Result<BlockIndex, KernelError> of get_block_index_tip / prev.
Ok(h) == [ok |-> TRUE, height |-> h]
Err == [ok |-> FALSE, height |-> 0]

\* struct TxIndex (main.rs:28-32).
TxIndex(txid, h, i) == [txid |-> txid, block_height |-> h, position_in_block |-> i]

\* struct TxIndexEntry (main.rs:34-37).
TxIndexEntry(h, i) == [block_height |-> h, position_in_block |-> i]

\* bincode::serialize of a TxIndexEntry: the fields in declaration order.
serialize(v) == <<v.block_height, v.position_in_block>>

\* bincode::deserialize into a TxIndexEntry.
deserialize_entry(data) == [block_height |-> data[1], position_in_block |-> data[2]]

\* No value under a key (MDB_NOTFOUND).
NotFound == <<>>

\* txdata[i] of a Rust Vec, which indexes from 0.
index(txdata, i) == txdata[i + 1]

\* The range 0..block.txdata.len() - 1 of main.rs:91, for len >= 1.
TxRange(len) == 0..(len - 2)

\* Mutant: the entry of i takes the identifier of txdata[i], so the coinbase
\* is indexed and the last transaction is not.
transactions_data_coinbase(txdata, h) ==
    [j \in 1..Cardinality(TxRange(Len(txdata))) |->
        TxIndex(compute_txid(index(txdata, j - 1)), h, j - 1)]

\* main.rs:91-101: one TxIndex per i of the range, for txdata[i + 1]
\* for i = j - 1; the indexed parallel collect keeps the order of the range.
transactions_data(txdata, h) ==
    [j \in 1..Cardinality(TxRange(Len(txdata))) |->
        TxIndex(compute_txid(index(txdata, (j - 1) + 1)), h, j - 1)]

\* Mutant: put with NO_OVERWRITE, an existing key keeps its value.
put_no_overwrite(table, key, data) ==
    IF table[key] = NotFound THEN [table EXCEPT ![key] = data] ELSE table

\* Mutant: put adds the data to what the key holds instead of replacing it.
put_accumulate(table, key, data) == [table EXCEPT ![key] = @ \o data]

\* txn.put(db, key, data, WriteFlags::empty()): overwrite.
put(table, key, data) == [table EXCEPT ![key] = data]

\* An empty table.
EmptyTable == [k \in Txids |-> NotFound]

\* Mutant: the writes of a dropped transaction stay in the table.
abort_keeps_writes(table, writes) == writes

\* Dropping an uncommitted RwTransaction aborts it: the table is unchanged.
abort(table, writes) == table

\* RwTransaction::commit: the transaction's view becomes the table.
commit(table, writes) == writes

\* ---------------------------------------------------------------- chains
RECURSIVE SumTo(_, _)
SumTo(sizes, n) == IF n = 0 THEN 0 ELSE sizes[n] + SumTo(sizes, n - 1)

\* The chain whose block at height h (stored at h + 1) has sizes[h + 1]
\* transactions, taken in order from flat.
MakeChain(sizes, flat) ==
    [b \in 1..Len(sizes) |->
        [i \in 1..sizes[b] |-> flat[SumTo(sizes, b - 1) + i]]]

\* Identifiers are opaque hashes, so chains are taken up to a renaming of
\* the transactions: a content is used only after all smaller ones.
FirstUse(flat) ==
    \A i \in 1..Len(flat) : \A t \in 1..(flat[i] - 1) : \E j \in 1..(i - 1) : flat[j] = t

VARIABLES
    chain,            \* the engine's active chain, chain[h + 1] = txdata at height h
    committed,        \* the txindex table as readers see it
    txn,              \* the open write transaction's view of the table
    txn_open,         \* whether a write transaction is open
    pc,               \* position in main
    block_index_res,  \* main.rs:82
    block_counter,    \* main.rs:83
    tx_batch,         \* main.rs:86
    put_i,            \* position of the for loop over tx_batch (main.rs:110, 127)
    in_loop,          \* TRUE in the batch commit (108-121), FALSE in the remainder (125-136)
    visited,          \* history: heights whose block was processed, in order
    walk_error,       \* history: the engine failed for the tip or a non-genesis predecessor
    cause,            \* history: the failed call that ended main early or was swallowed
    built_chain,      \* history: the chain the build walked
    lookup_txid,      \* main.rs:143
    txindex,          \* main.rs:146
    outcome,          \* the retrieval's result: "none", "not_found" or "found"
    found_tx,         \* main.rs:151, the transaction printed
    run,              \* history: 1 in the first run of the program, 2 in the second
    first_table,      \* history: the table the first run left
    first_visited,    \* history: the heights the first run processed
    results,          \* the slots the parallel map of main.rs:91-101 fills
    done_order        \* history: the indices of the map in their order of completion

build_vars == <<committed, txn, txn_open, block_index_res, block_counter,
                tx_batch, put_i, in_loop, visited, walk_error>>

lookup_vars == <<built_chain, lookup_txid, txindex, outcome, found_tx>>

run_vars == <<run, first_table, first_visited>>

par_vars == <<results, done_order>>

vars == <<chain, pc, cause, build_vars, lookup_vars, run_vars, par_vars>>

Init ==
    /\ \E k \in 1..MaxChain :
         \E sizes \in [1..k -> 0..MaxTxs] :
           /\ SumTo(sizes, k) <= MaxTotal
           /\ \E flat \in [1..SumTo(sizes, k) -> Tx] :
                /\ FirstUse(flat)
                /\ chain = MakeChain(sizes, flat)
    /\ committed = EmptyTable
    /\ txn = EmptyTable
    /\ txn_open = FALSE
    /\ pc = "tip"
    /\ block_index_res = Err
    /\ block_counter = 0
    /\ tx_batch = <<>>
    /\ put_i = 1
    /\ in_loop = TRUE
    /\ visited = <<>>
    /\ walk_error = FALSE
    /\ cause = "none"
    /\ built_chain = chain
    /\ lookup_txid = compute_txid(1)
    /\ txindex = TxIndexEntry(0, 0)
    /\ outcome = "none"
    /\ found_tx = 1
    /\ run = 1
    /\ first_table = EmptyTable
    /\ first_visited = <<>>
    /\ results = <<>>
    /\ done_order = <<>>

\* ------------------------------------------------------------ the build
\* main.rs:82, the engine returns the tip.
GetTip ==
    /\ pc = "tip"
    /\ block_index_res' = Ok(Len(chain) - 1)
    /\ pc' = "walk"
    /\ UNCHANGED <<chain, committed, txn, txn_open, block_counter, tx_batch,
                   put_i, in_loop, visited, walk_error, cause,
                   lookup_vars, run_vars, par_vars>>

\* main.rs:82, the engine returns an error for the tip.
GetTipErr ==
    /\ pc = "tip"
    /\ block_index_res' = Err
    /\ walk_error' = TRUE
    /\ pc' = "walk"
    /\ UNCHANGED <<chain, committed, txn, txn_open, block_counter, tx_batch,
                   put_i, in_loop, visited, cause,
                   lookup_vars, run_vars, par_vars>>

\* main.rs:88, read_block_data(..).unwrap() on an error.
ReadBlockFail ==
    /\ pc = "walk"
    /\ block_index_res.ok
    /\ pc' = "panicked"
    /\ cause' = "read_block_data"
    /\ UNCHANGED <<chain, committed, txn, txn_open, block_index_res, block_counter,
                   tx_batch, put_i, in_loop, visited, walk_error,
                   lookup_vars, run_vars, par_vars>>

\* Mutant: a block that does not deserialize is skipped and the walk goes
\* on with its predecessor.
DeserializeFail_skip ==
    /\ pc = "walk"
    /\ block_index_res.ok
    /\ cause' = "deserialize"
    /\ block_index_res' = IF block_index_res.height = 0 THEN Err
                          ELSE Ok(block_index_res.height - 1)
    /\ UNCHANGED <<chain, pc, committed, txn, txn_open, block_counter, tx_batch,
                   put_i, in_loop, visited, walk_error, lookup_vars, run_vars, par_vars>>

\* main.rs:89, deserialize(..).unwrap() on an error.
DeserializeFail ==
    /\ pc = "walk"
    /\ block_index_res.ok
    /\ pc' = "panicked"
    /\ cause' = "deserialize"
    /\ UNCHANGED <<chain, committed, txn, txn_open, block_index_res, block_counter,
                   tx_batch, put_i, in_loop, visited, walk_error,
                   lookup_vars, run_vars, par_vars>>

\* main.rs:91 on a block without transactions: len() - 1 on the usize 0
\* panics with overflow checks, and without them wraps to usize::MAX, a
\* range whose collect panics as well (capacity overflow, txdata[1] out of
\* bounds). Every build of the program panics here.
EmptyBlockPanic ==
    /\ pc = "walk"
    /\ block_index_res.ok
    /\ Len(chain[block_index_res.height + 1]) = 0
    /\ pc' = "panicked"
    /\ cause' = "empty_block"
    /\ UNCHANGED <<chain, committed, txn, txn_open, block_index_res, block_counter,
                   tx_batch, put_i, in_loop, visited, walk_error,
                   lookup_vars, run_vars, par_vars>>

\* main.rs:87-108, one iteration up to the test of the batch size, with
\* prev() returning res.
Iteration(res) ==
    LET h == block_index_res.height
        txdata == chain[h + 1]
    IN  /\ pc = "walk"
        /\ block_index_res.ok
        /\ Len(txdata) >= 1
        /\ tx_batch' = tx_batch \o transactions_data(txdata, h)
        /\ block_index_res' = res
        /\ block_counter' = block_counter + 1
        /\ visited' = Append(visited, h)
        /\ IF (block_counter + 1) % batch_size = 0
             THEN pc' = "begin" /\ in_loop' = TRUE
             ELSE pc' = "walk" /\ UNCHANGED in_loop
        /\ UNCHANGED <<chain, committed, txn, txn_open, put_i, cause,
                   lookup_vars, run_vars, par_vars>>

\* Mutant: the walk advances twice per iteration, prev() of prev().
ProcessBlock_skips ==
    /\ block_index_res.ok
    /\ Iteration(IF block_index_res.height <= 1 THEN Err
                 ELSE Ok(block_index_res.height - 2))
    /\ UNCHANGED walk_error

\* The iteration when the engine answers prev() truthfully: the
\* predecessor, or an error at genesis, which has none.
ProcessBlock ==
    /\ block_index_res.ok
    /\ Iteration(IF block_index_res.height = 0 THEN Err
                 ELSE Ok(block_index_res.height - 1))
    /\ UNCHANGED walk_error

\* The iteration when the engine fails to give the predecessor of a block
\* that is not genesis.
ProcessBlockPrevErr ==
    /\ block_index_res.ok
    /\ block_index_res.height > 0
    /\ Iteration(Err)
    /\ walk_error' = TRUE

\* main.rs:87, while let Ok(..) on an Err: the loop ends.
LoopExit ==
    /\ pc = "walk"
    /\ ~block_index_res.ok
    /\ pc' = "rest"
    /\ UNCHANGED <<chain, committed, txn, txn_open, block_index_res, block_counter,
                   tx_batch, put_i, in_loop, visited, walk_error, cause,
                   lookup_vars, run_vars, par_vars>>

\* main.rs:125, the test for remaining entries.
Rest ==
    /\ pc = "rest"
    /\ IF tx_batch # <<>>
         THEN pc' = "begin" /\ in_loop' = FALSE
         ELSE pc' = "built" /\ UNCHANGED in_loop
    /\ UNCHANGED <<chain, committed, txn, txn_open, block_index_res, block_counter,
                   tx_batch, put_i, visited, walk_error, cause,
                   lookup_vars, run_vars, par_vars>>

\* main.rs:109 and 126, env.begin_rw_txn()?
BeginRwTxn ==
    /\ pc = "begin"
    /\ txn' = committed
    /\ txn_open' = TRUE
    /\ put_i' = 1
    /\ pc' = "put"
    /\ UNCHANGED <<chain, committed, block_index_res, block_counter, tx_batch,
                   in_loop, visited, walk_error, cause,
                   lookup_vars, run_vars, par_vars>>

BeginRwTxnFail ==
    /\ pc = "begin"
    /\ pc' = "error"
    /\ cause' = "begin_rw_txn"
    /\ UNCHANGED <<chain, committed, txn, txn_open, block_index_res, block_counter,
                   tx_batch, put_i, in_loop, visited, walk_error,
                   lookup_vars, run_vars, par_vars>>

\* main.rs:110-117 and 127-134, one turn of the for loop.
Put ==
    /\ pc = "put"
    /\ put_i <= Len(tx_batch)
    /\ LET entry == tx_batch[put_i]
           v == TxIndexEntry(entry.block_height, entry.position_in_block)
       IN  txn' = put(txn, entry.txid, serialize(v))
    /\ put_i' = put_i + 1
    /\ UNCHANGED <<chain, committed, txn_open, pc, block_index_res, block_counter,
                   tx_batch, in_loop, visited, walk_error, cause,
                   lookup_vars, run_vars, par_vars>>

\* txn.put(..)? on an error: main returns and the transaction is dropped.
PutFail ==
    /\ pc = "put"
    /\ put_i <= Len(tx_batch)
    /\ committed' = abort(committed, txn)
    /\ txn_open' = FALSE
    /\ pc' = "error"
    /\ cause' = "put"
    /\ UNCHANGED <<chain, txn, block_index_res, block_counter, tx_batch, put_i,
                   in_loop, visited, walk_error,
                   lookup_vars, run_vars, par_vars>>

\* Mutant: the committed transaction is not closed.
Commit_stays_open ==
    /\ pc = "put"
    /\ put_i > Len(tx_batch)
    /\ committed' = commit(committed, txn)
    /\ IF in_loop
         THEN tx_batch' = <<>> /\ pc' = "walk"
         ELSE UNCHANGED tx_batch /\ pc' = "built"
    /\ UNCHANGED <<chain, txn, txn_open, block_index_res, block_counter, put_i,
                   in_loop, visited, walk_error, cause, lookup_vars, run_vars,
                   par_vars>>

\* Mutant: tx_batch.clear() of main.rs:119 is missing.
Commit_no_clear ==
    /\ pc = "put"
    /\ put_i > Len(tx_batch)
    /\ committed' = commit(committed, txn)
    /\ txn_open' = FALSE
    /\ pc' = (IF in_loop THEN "walk" ELSE "built")
    /\ UNCHANGED <<chain, txn, tx_batch, block_index_res, block_counter, put_i,
                   in_loop, visited, walk_error, cause, lookup_vars, run_vars,
                   par_vars>>

\* main.rs:118-119 and 135, txn.commit()? and what follows it.
Commit ==
    /\ pc = "put"
    /\ put_i > Len(tx_batch)
    /\ committed' = commit(committed, txn)
    /\ txn_open' = FALSE
    /\ IF in_loop
         THEN tx_batch' = <<>> /\ pc' = "walk"
         ELSE UNCHANGED tx_batch /\ pc' = "built"
    /\ UNCHANGED <<chain, txn, block_index_res, block_counter, put_i, in_loop,
                   visited, walk_error, cause,
                   lookup_vars, run_vars, par_vars>>

CommitFail ==
    /\ pc = "put"
    /\ put_i > Len(tx_batch)
    /\ committed' = abort(committed, txn)
    /\ txn_open' = FALSE
    /\ pc' = "error"
    /\ cause' = "commit"
    /\ UNCHANGED <<chain, txn, block_index_res, block_counter, tx_batch, put_i,
                   in_loop, visited, walk_error,
                   lookup_vars, run_vars, par_vars>>

Build ==
    \/ GetTip \/ GetTipErr
    \/ ReadBlockFail \/ DeserializeFail \/ EmptyBlockPanic
    \/ ProcessBlock \/ ProcessBlockPrevErr
    \/ LoopExit \/ Rest
    \/ BeginRwTxn \/ BeginRwTxnFail
    \/ Put \/ PutFail
    \/ Commit \/ CommitFail

\* ------------------------------------------------------------ the lookup
\* The environment between the build and the retrieval: the engine's block
\* at height h loses its last transactions (the chain was reorganised).
Reorg ==
    /\ pc = "built"
    /\ chain = built_chain
    /\ \E h \in 0..(Len(chain) - 1) :
         \E n \in 0..(Len(chain[h + 1]) - 1) :
           chain' = [chain EXCEPT ![h + 1] = SubSeq(@, 1, n)]
    /\ UNCHANGED <<pc, cause, build_vars, run_vars, par_vars, lookup_vars>>

\* main.rs:143-144, env.begin_ro_txn()? for the identifier looked up.
BeginRoTxn ==
    /\ pc = "built"
    /\ \E k \in Txids : lookup_txid' = k
    /\ pc' = "get"
    /\ UNCHANGED <<chain, cause, build_vars, run_vars, par_vars, built_chain, txindex, outcome, found_tx>>

BeginRoTxnFail ==
    /\ pc = "built"
    /\ pc' = "error"
    /\ cause' = "begin_ro_txn"
    /\ UNCHANGED <<chain, build_vars, run_vars, par_vars, lookup_vars>>

\* Mutant: txn.get(..)? instead of .ok(), NotFound ends main with an error.
GetNotFound_error ==
    /\ pc = "get"
    /\ committed[lookup_txid] = NotFound
    /\ pc' = "error"
    /\ cause' = "get_not_found"
    /\ UNCHANGED <<chain, build_vars, run_vars, par_vars, lookup_vars>>

\* main.rs:145, txn.get(..) is Err(NotFound): .ok() is None, the block of
\* the if let is skipped and main returns Ok(()).
GetNotFound ==
    /\ pc = "get"
    /\ committed[lookup_txid] = NotFound
    /\ outcome' = "not_found"
    /\ pc' = "done"
    /\ UNCHANGED <<chain, cause, build_vars, run_vars, par_vars, built_chain, lookup_txid, txindex, found_tx>>

\* main.rs:145, txn.get(..) is another Err: .ok() is None as well.
GetErr ==
    /\ pc = "get"
    /\ outcome' = "not_found"
    /\ cause' = "get"
    /\ pc' = "done"
    /\ UNCHANGED <<chain, build_vars, run_vars, par_vars, built_chain, lookup_txid, txindex, found_tx>>

\* main.rs:145-147, txn.get(..) is Ok(data) and data deserializes.
GetFound ==
    /\ pc = "get"
    /\ committed[lookup_txid] # NotFound
    /\ txindex' = deserialize_entry(committed[lookup_txid])
    /\ pc' = "locate"
    /\ UNCHANGED <<chain, cause, build_vars, run_vars, par_vars, built_chain, lookup_txid, outcome, found_tx>>

\* main.rs:146, bincode::deserialize(data)? on an error.
DeserializeEntryFail ==
    /\ pc = "get"
    /\ committed[lookup_txid] # NotFound
    /\ pc' = "error"
    /\ cause' = "deserialize_entry"
    /\ UNCHANGED <<chain, build_vars, run_vars, par_vars, lookup_vars>>

\* main.rs:148, get_block_index_by_height is Err: todo!() panics.
ByHeightFail ==
    /\ pc = "locate"
    /\ pc' = "panicked"
    /\ cause' = "get_block_index_by_height"
    /\ UNCHANGED <<chain, build_vars, run_vars, par_vars, lookup_vars>>

\* main.rs:149, read_block_data(..).unwrap() on an error.
LocateReadFail ==
    /\ pc = "locate"
    /\ txindex.block_height < Len(chain)
    /\ pc' = "panicked"
    /\ cause' = "locate_read_block_data"
    /\ UNCHANGED <<chain, build_vars, run_vars, par_vars, lookup_vars>>

\* main.rs:150, deserialize(..).unwrap() on an error.
LocateDeserializeFail ==
    /\ pc = "locate"
    /\ txindex.block_height < Len(chain)
    /\ pc' = "panicked"
    /\ cause' = "locate_deserialize"
    /\ UNCHANGED <<chain, build_vars, run_vars, par_vars, lookup_vars>>

\* main.rs:151, block.txdata[txindex.position_in_block] out of bounds.
IndexOutOfBounds ==
    /\ pc = "locate"
    /\ txindex.block_height < Len(chain)
    /\ txindex.position_in_block >= Len(chain[txindex.block_height + 1])
    /\ pc' = "panicked"
    /\ cause' = "index_out_of_bounds"
    /\ UNCHANGED <<chain, build_vars, run_vars, par_vars, lookup_vars>>

\* main.rs:148-152, the block at the recorded height is resolved, read and
\* decoded, and the transaction at the recorded position is printed.
Reconstruct ==
    /\ pc = "locate"
    /\ txindex.block_height < Len(chain)
    /\ txindex.position_in_block < Len(chain[txindex.block_height + 1])
    /\ found_tx' = index(chain[txindex.block_height + 1], txindex.position_in_block)
    /\ outcome' = "found"
    /\ pc' = "done"
    /\ UNCHANGED <<chain, cause, build_vars, run_vars, par_vars, built_chain, lookup_txid, txindex>>

Lookup ==
    \/ BeginRoTxn \/ BeginRoTxnFail
    \/ GetNotFound \/ GetErr \/ GetFound \/ DeserializeEntryFail
    \/ ByHeightFail \/ LocateReadFail \/ LocateDeserializeFail
    \/ IndexOutOfBounds \/ Reconstruct

Next == Build \/ Reorg \/ Lookup

Spec == Init /\ [][Next]_vars

\* ------------------------------------------------- what the claims speak of
\* The calls whose failure ends the build.
BuildCauses ==
    {"read_block_data", "deserialize", "empty_block", "begin_rw_txn", "put", "commit"}

BuildFailed == pc \in {"panicked", "error"} /\ cause \in BuildCauses

\* main.rs:138 was reached: the build logged "built index!".
Reported ==
    \/ pc \in {"built", "get", "locate", "done"}
    \/ pc \in {"panicked", "error"} /\ cause \notin BuildCauses

\* The retrieval has read the table (main.rs:145 is behind it).
AfterGet ==
    \/ pc \in {"locate", "done"}
    \/ pc \in {"panicked", "error"} /\ cause \notin (BuildCauses \cup {"begin_ro_txn"})

Heights(c) == 0..(Len(c) - 1)

\* The Rust indices of the non-coinbase transactions of the block at height h.
NonCoinbase(c, h) == 1..(Len(c[h + 1]) - 1)

\* The transactions of the chain have pairwise distinct identifiers.
DistinctIds(c) ==
    \A h1, h2 \in Heights(c) :
      \A i1 \in 0..(Len(c[h1 + 1]) - 1), i2 \in 0..(Len(c[h2 + 1]) - 1) :
        compute_txid(index(c[h1 + 1], i1)) = compute_txid(index(c[h2 + 1], i2))
          => (h1 = h2 /\ i1 = i2)

\* C1. Round trip: on an unchanged chain with pairwise distinct identifiers,
\* a retrieval that finds the entry (h, p) of k returns the transaction at
\* index p + 1 of the block at height h, whose identifier is k.
C1_RoundTrip ==
    (pc = "done" /\ outcome = "found" /\ chain = built_chain /\ DistinctIds(chain))
      => /\ found_tx = index(chain[txindex.block_height + 1],
                             txindex.position_in_block + 1)
         /\ compute_txid(found_tx) = lookup_txid

\* C2. Every step that processes a block of N >= 2 transactions at height
\* h appends exactly N - 1 entries to the batch: for each i in 1..N-1 the
\* entry at place i has the identifier of txdata[i], height h and position
\* i - 1, so the positions are 0..N-2 and the coinbase has no entry.
C2_EntriesOfBlock ==
    [][visited' # visited =>
        LET h == visited'[Len(visited')]
            txdata == built_chain[h + 1]
            N == Len(txdata)
            new == SubSeq(tx_batch', Len(tx_batch) + 1, Len(tx_batch'))
        IN  N >= 2 =>
              /\ Len(new) = N - 1
              /\ \A i \in 1..(N - 1) :
                    /\ new[i].txid = compute_txid(index(txdata, i))
                    /\ new[i].block_height = h
                    /\ new[i].position_in_block = i - 1
              /\ {new[j].position_in_block : j \in 1..Len(new)} = 0..(N - 2)]_vars

\* A block of three transactions has been processed and its two entries
\* are pending.
C2_Witness ==
    /\ visited # <<>>
    /\ Len(built_chain[visited[Len(visited)] + 1]) = 3
    /\ pc = "walk"
    /\ Len(tx_batch) >= 2

\* C3. A block with fewer than two transactions (one or none) adds no entry
\* and the build goes on to the predecessor: the range computation never
\* ends the build.
C3_ShortBlockAddsNothing ==
    [][(pc = "walk" /\ block_index_res.ok
          /\ Len(chain[block_index_res.height + 1]) <= 1
          /\ cause' \notin {"read_block_data", "deserialize"})
        => /\ pc' \in {"walk", "begin"}
           /\ visited' = Append(visited, block_index_res.height)
           /\ Len(tx_batch') = Len(tx_batch)]_vars

\* The entry a reader sees under k.
Entry(k) == deserialize_entry(committed[k])

Max(S) == CHOOSE x \in S : \A y \in S : y <= x

Min(S) == CHOOSE x \in S : \A y \in S : x <= y

\* The Rust indices at which the block at height h holds identifier k as a
\* non-coinbase transaction.
Places(c, h, k) == {i \in NonCoinbase(c, h) : compute_txid(index(c[h + 1], i)) = k}

\* The first n blocks of the walk that hold k, as places in visited.
Holders(k, n) == {m \in 1..n : Places(built_chain, visited[m], k) # {}}

\* The table holds, under every identifier, what the first n blocks of the
\* walk leave there when written in walk order: nothing if none holds it,
\* else the last place of it in the last block that holds it.
TableIsWalkPrefix(n) ==
    \A k \in Txids :
      IF Holders(k, n) = {}
        THEN committed[k] = NotFound
        ELSE LET h == visited[Max(Holders(k, n))]
             IN  /\ committed[k] # NotFound
                 /\ Entry(k) = TxIndexEntry(h, Max(Places(built_chain, h, k)) - 1)

\* The batches of the walk so far: batch j is the j-th group of batch_size
\* visited blocks, the last one possibly shorter.
NBatches == (Len(visited) + batch_size - 1) \div batch_size

BatchHeights(j) ==
    {visited[m] : m \in {m \in 1..Len(visited) :
                          (j - 1) * batch_size < m /\ m <= j * batch_size}}

BatchKeys(j) ==
    {compute_txid(index(built_chain[h + 1], i)) :
        <<h, i>> \in {hi \in BatchHeights(j) \X (1..MaxTxs) :
                        hi[2] \in NonCoinbase(built_chain, hi[1])}}

\* The identifiers whose visible entry was written by batch j.
VisibleOf(j) ==
    {k \in Txids : committed[k] # NotFound /\ Entry(k).block_height \in BatchHeights(j)}

\* Every identifier of batch j is visible, with the entry of batch j or of
\* a batch written after it.
AllVisible(j) ==
    \A k \in BatchKeys(j) :
      /\ committed[k] # NotFound
      /\ \E j2 \in j..NBatches : Entry(k).block_height \in BatchHeights(j2)

\* C4. Batch atomicity: in every state of the build, up to its completion
\* or failure, the table readers see holds, of every batch, all entries or
\* none; and once the build has failed, no entry of the batch that was
\* pending is visible.
C4_BatchAtomicity ==
    /\ (~Reported \/ pc = "built") =>
         \A j \in 1..NBatches : VisibleOf(j) = {} \/ AllVisible(j)
    /\ BuildFailed =>
         \A n \in 1..Len(tx_batch) :
           \/ committed[tx_batch[n].txid] = NotFound
           \/ Entry(tx_batch[n].txid) #
                TxIndexEntry(tx_batch[n].block_height, tx_batch[n].position_in_block)

\* A put failed after the first entry of a batch of several had been
\* written into the transaction.
C4_Witness ==
    /\ BuildFailed
    /\ cause = "put"
    /\ put_i >= 2
    /\ Len(tx_batch) >= 2
    /\ txn # committed

\* C5. After the engine failed for the tip or for the predecessor of a
\* block above genesis, the build opens no write transaction and does not
\* report completion.
C5_WalkErrorAborts == walk_error => (~txn_open /\ ~Reported)

\* C6. Once the build has reported completion, every non-coinbase
\* transaction of every block of the chain has an entry.
C6_Complete ==
    Reported =>
      \A h \in Heights(built_chain) :
        \A i \in NonCoinbase(built_chain, h) :
          committed[compute_txid(index(built_chain[h + 1], i))] # NotFound

DecodeCauses == {"read_block_data", "deserialize"}

\* C7. When a block cannot be read or deserialized the build has stopped
\* at that block: the block is not counted as processed, no transaction is
\* open, completion is not reported, the table holds exactly the full
\* batches committed before, and nothing happens afterwards.
C7_DecodeFailureIsFatal ==
    /\ [](cause \in DecodeCauses =>
            /\ pc = "panicked"
            /\ ~Reported
            /\ ~txn_open
            /\ block_index_res.ok
            /\ \A m \in 1..Len(visited) : visited[m] # block_index_res.height
            /\ Len(visited) = block_counter
            /\ TableIsWalkPrefix((block_counter \div batch_size) * batch_size))
    /\ [][pc = "panicked" => UNCHANGED vars]_vars

\* A block failed to decode while entries of its batch were pending.
C7_Witness ==
    /\ cause \in DecodeCauses
    /\ pc = "panicked"
    /\ tx_batch # <<>>

\* C8. A retrieval that has read the table for an identifier without an
\* entry ends as "not found", with no error and no block fetch; and after
\* the build of a chain with distinct identifiers no coinbase identifier
\* has an entry.
C8_Absence ==
    /\ (AfterGet /\ committed[lookup_txid] = NotFound)
         => (pc = "done" /\ outcome = "not_found")
    /\ (pc = "built" /\ DistinctIds(built_chain)) =>
         \A h \in Heights(built_chain) :
           Len(built_chain[h + 1]) >= 1 =>
             committed[compute_txid(index(built_chain[h + 1], 0))] = NotFound

\* After a build that indexed something, the coinbase identifier of a
\* block of a chain with distinct identifiers was looked up and not found.
C8_Witness ==
    /\ pc = "done"
    /\ outcome = "not_found"
    /\ cause = "none"
    /\ DistinctIds(built_chain)
    /\ committed # EmptyTable
    /\ \E h \in Heights(built_chain) :
         /\ Len(built_chain[h + 1]) >= 1
         /\ lookup_txid = compute_txid(index(built_chain[h + 1], 0))

\* C9. A retrieval whose entry exists but whose block cannot be resolved,
\* read or decoded ends in a panic, and a retrieval returns a transaction
\* only if the recorded position lies inside the block (index p + 1 is
\* below the block's length).
C9_ReconstructionFails ==
    /\ cause \in {"get_block_index_by_height", "locate_read_block_data",
                   "locate_deserialize"}
         => (pc = "panicked" /\ outcome = "none")
    /\ (pc = "done" /\ outcome = "found")
         => txindex.position_in_block + 1 < Len(chain[txindex.block_height + 1])

\* C10. When the build has completed every identifier that the walked blocks hold has
\* one entry, the one written last: that of the block reached last in the
\* walk (the lowest height) among those that hold it.
C10_LastWriteWins ==
    pc = "built" =>
      /\ TableIsWalkPrefix(Len(visited))
      /\ \A k \in Txids :
           Holders(k, Len(visited)) # {} =>
             Entry(k).block_height =
               Min({visited[m] : m \in Holders(k, Len(visited))})

\* An identifier held by two blocks of different batches after the build.
C10_Witness ==
    /\ pc = "built"
    /\ \E k \in Txids :
         \E m1, m2 \in Holders(k, Len(visited)) :
           m1 <= batch_size /\ m2 > batch_size

\* ------------------------------------------------------- a second run
\* The program is started again on the same chain after a run whose build
\* completed: main.rs:67-86 open the directory and the table that exist
\* (create_dir_all, create_db) and start from fresh locals.
Rerun ==
    /\ pc = "built"
    /\ run = 1
    /\ chain = built_chain
    /\ run' = 2
    /\ first_table' = committed
    /\ first_visited' = visited
    /\ pc' = "tip"
    /\ block_index_res' = Err
    /\ block_counter' = 0
    /\ tx_batch' = <<>>
    /\ put_i' = 1
    /\ in_loop' = TRUE
    /\ visited' = <<>>
    /\ walk_error' = FALSE
    /\ UNCHANGED <<chain, cause, committed, txn, txn_open, lookup_vars, par_vars>>

NextRerun == Build \/ Rerun

\* The build, run once or twice; the retrieval, which writes nothing, is
\* left out.
SpecRerun == Init /\ [][NextRerun]_vars

\* C11. Idempotence: when the second run has completed, the table is what
\* the first run left if both walked the same blocks, and, if the second
\* walk met no engine error, it is what one walk of the chain leaves on an
\* empty table, whatever the first run left.
C11_Idempotent ==
    (run = 2 /\ pc = "built") =>
      /\ visited = first_visited => committed = first_table
      /\ ~walk_error =>
           /\ Len(visited) = Len(built_chain)
           /\ TableIsWalkPrefix(Len(visited))

\* Both runs walked the same three blocks and the table is not empty.
C11_Witness ==
    /\ run = 2
    /\ pc = "built"
    /\ visited = first_visited
    /\ Len(visited) = 3
    /\ committed # EmptyTable

\* ------------------------------------------- the parallel map, step by step
\* A slot of the collected Vec that no worker has written yet.
EmptySlot == TxIndex(<<>>, 0, 0)

\* Mutant: the results are gathered as the workers finish (pushed into a
\* shared Vec) instead of by their index.
collect_by_completion(slots, order) ==
    [n \in 1..Len(order) |-> slots[order[n] + 1]]

\* main.rs:101, collect() of an indexed parallel iterator: the result of
\* index i is at place i, whatever the order in which the workers finish.
collect(slots, order) == slots

\* main.rs:87-92, the block is read and decoded and the map over
\* 0..len - 1 starts with one empty slot per index.
StartMap ==
    /\ pc = "walk"
    /\ block_index_res.ok
    /\ Len(chain[block_index_res.height + 1]) >= 1
    /\ results' = [j \in 1..Cardinality(TxRange(Len(chain[block_index_res.height + 1])))
                     |-> EmptySlot]
    /\ done_order' = <<>>
    /\ pc' = "map"
    /\ UNCHANGED <<chain, cause, build_vars, lookup_vars, run_vars>>

\* main.rs:93-100, a worker runs the closure for one index i that is
\* still to do.
Worker ==
    /\ pc = "map"
    /\ \E i \in TxRange(Len(chain[block_index_res.height + 1])) :
         /\ results[i + 1] = EmptySlot
         /\ results' = [results EXCEPT ![i + 1] =
                TxIndex(compute_txid(index(chain[block_index_res.height + 1], i + 1)),
                        block_index_res.height, i)]
         /\ done_order' = Append(done_order, i)
    /\ UNCHANGED <<chain, pc, cause, build_vars, lookup_vars, run_vars>>

\* main.rs:101-108, all workers are done: the results are collected and
\* the iteration ends with prev() returning res.
CollectInto(res) ==
    /\ pc = "map"
    /\ \A j \in 1..Len(results) : results[j] # EmptySlot
    /\ tx_batch' = tx_batch \o collect(results, done_order)
    /\ results' = <<>>
    /\ block_index_res' = res
    /\ block_counter' = block_counter + 1
    /\ visited' = Append(visited, block_index_res.height)
    /\ IF (block_counter + 1) % batch_size = 0
         THEN pc' = "begin" /\ in_loop' = TRUE
         ELSE pc' = "walk" /\ UNCHANGED in_loop
    /\ UNCHANGED <<chain, committed, txn, txn_open, put_i, cause, done_order,
                   lookup_vars, run_vars>>

CollectBlock ==
    /\ CollectInto(IF block_index_res.height = 0 THEN Err
                   ELSE Ok(block_index_res.height - 1))
    /\ UNCHANGED walk_error

CollectBlockPrevErr ==
    /\ block_index_res.height > 0
    /\ CollectInto(Err)
    /\ walk_error' = TRUE

NextPar ==
    \/ GetTip \/ GetTipErr
    \/ ReadBlockFail \/ DeserializeFail \/ EmptyBlockPanic
    \/ StartMap \/ Worker \/ CollectBlock \/ CollectBlockPrevErr
    \/ LoopExit \/ Rest
    \/ BeginRwTxn \/ BeginRwTxnFail
    \/ Put \/ PutFail
    \/ Commit \/ CommitFail

\* The build with the workers of the map interleaved.
SpecPar == Init /\ [][NextPar]_vars

\* C14. Whatever the order in which the workers finish, the entries
\* collected for a block are the same set, one entry per non-coinbase
\* transaction, and the table of a completed build is what the walk in
\* order leaves.
C14_OrderIndependent ==
    /\ [](pc = "built" => TableIsWalkPrefix(Len(visited)))
    /\ [][(pc = "map" /\ pc' # "map") =>
            LET h == block_index_res.height
                txdata == built_chain[h + 1]
                new == SubSeq(tx_batch', Len(tx_batch) + 1, Len(tx_batch'))
            IN  /\ {new[n] : n \in 1..Len(new)} =
                     {TxIndex(compute_txid(index(txdata, i)), h, i - 1) :
                        i \in NonCoinbase(built_chain, h)}
                /\ Len(new) = Len(txdata) - 1]_vars

\* A build has completed whose last block had its second entry computed
\* before its first.
C14_Witness ==
    /\ pc = "built"
    /\ done_order = <<1, 0>>
    /\ committed # EmptyTable

\* C12. Single writer: a write transaction begins only when none is open,
\* the read transaction of the retrieval begins only when none is open,
\* and a write transaction is open only inside the for loop that fills it.
C12_SingleWriter ==
    [][/\ (pc = "begin" /\ pc' = "put") => ~txn_open
       /\ (pc = "built" /\ pc' = "get") => ~txn_open
       /\ txn_open' => pc' = "put"]_vars

\* The write transaction of the remainder is open after the transaction
\* of a full batch was committed.
C12_Witness ==
    /\ txn_open
    /\ ~in_loop
    /\ block_counter > batch_size
    /\ committed # EmptyTable

\* C13. Walk order: the m-th block processed is the one m - 1 below the
\* tip, so the heights decrease by one from the tip and no block is
\* processed twice; once genesis is processed the walk has no next block;
\* and a walk that ended without an engine error processed every block
\* down to height 0.
C13_WalkOrder ==
    /\ \A m \in 1..Len(visited) : visited[m] = Len(built_chain) - m
    /\ (visited # <<>> /\ visited[Len(visited)] = 0) => ~block_index_res.ok
    /\ (pc # "tip" /\ ~block_index_res.ok /\ ~walk_error)
         => (Len(visited) = Len(built_chain) /\ visited[Len(visited)] = 0)

\* The walk of a chain of three blocks has ended after genesis.
C13_Witness ==
    /\ pc = "rest"
    /\ ~walk_error
    /\ visited = <<2, 1, 0>>

\* The blocks processed since the last full batch.
PendingHeights ==
    {visited[m] : m \in {m \in 1..Len(visited) :
                          m > (block_counter \div batch_size) * batch_size}}

\* tx_batch holds the entries of the blocks at the heights hs, and no other.
BatchHolds(batch, hs) ==
    /\ \A n \in 1..Len(batch) : batch[n].block_height \in hs
    /\ \A h \in hs : \A i \in NonCoinbase(built_chain, h) :
         \E n \in 1..Len(batch) :
           batch[n] = TxIndex(compute_txid(index(built_chain[h + 1], i)), h, i - 1)

\* C15. Fixed-size batches, in a run that starts on an empty table (the
\* first): between iterations, after c blocks, the table
\* holds exactly the entries of the first floor(c / B) * B blocks of the
\* walk and the pending list those of the c mod B blocks after them; an
\* iteration goes to the commit exactly when the count becomes a multiple
\* of B; a commit inside the loop carries the entries of the last B
\* blocks; and the table changes only at a commit.
C15_FixedBatches ==
    /\ []((run = 1 /\ pc \in {"walk", "rest"}) =>
            /\ Len(visited) = block_counter
            /\ TableIsWalkPrefix((block_counter \div batch_size) * batch_size)
            /\ Cardinality(PendingHeights) < batch_size
            /\ BatchHolds(tx_batch, PendingHeights))
    /\ [][/\ visited' # visited =>
               (pc' = "begin" <=> (block_counter' % batch_size = 0))
          /\ (pc = "put" /\ pc' = "walk") =>
               /\ block_counter > 0
               /\ block_counter % batch_size = 0
               /\ BatchHolds(tx_batch,
                     {visited[m] : m \in (block_counter - batch_size + 1)..block_counter})
          /\ committed' # committed => (pc = "put" /\ pc' \in {"walk", "built"})]_vars

\* A full batch was committed and cleared, and the walk goes on.
C15_Witness ==
    /\ pc = "walk"
    /\ block_index_res.ok
    /\ block_counter = batch_size
    /\ tx_batch = <<>>
    /\ committed # EmptyTable

\* C16. A read of the table that fails for another reason than a missing
\* key ends the retrieval as a failure, not as "not found".
C16_GetErrorPropagates ==
    cause = "get" => (pc \in {"error", "panicked"} /\ outcome # "not_found")

====
